---------------------------- MODULE Spec2Model ----------------------------
(***************************************************************************)
(* A model of the EMR record store (src/emr_system.py, class EMRSystem)    *)
(* and of its command shell (src/emr_cli.py, class EMRCLI).                *)
(*                                                                         *)
(* A Python str is a sequence of one-character strings, a Python int an    *)
(* integer, None the empty tuple and an Optional value a tuple of length   *)
(* at most one.  A table is the sequence of its rows in rowid order; no    *)
(* operation deletes, so AUTOINCREMENT gives row i the id i.               *)
(***************************************************************************)
EXTENDS Integers, Sequences, FiniteSets, TLC

VARIABLES
    users,              \* table users
    patients,           \* table patients
    appointments,       \* table appointments
    medical_records,    \* table medical_records
    current_user,       \* EMRCLI.current_user: None or <<id>>
    current_role,       \* EMRCLI.current_role: None or <<role>>
    running,            \* FALSE once do_quit has closed the connection
    command,            \* the shell command of the last step ("" when the store is used directly)
    call,               \* the store call issued by the last step (or no call)
    ret,                \* what that call returned
    passwords,          \* history: passwords[i] is the password users[i] was created with
    given_patients      \* history: given_patients[i] is the Patient passed for patients[i]

vars == <<users, patients, appointments, medical_records, current_user,
          current_role, running, command, call, ret, passwords, given_patients>>

tables == <<users, patients, appointments, medical_records>>
session == <<current_user, current_role>>
direct == <<current_user, current_role, command>>

-----------------------------------------------------------------------------
(* Bounds of the model.                                                    *)

MaxUsers == 2
MaxPatients == 2
MaxAppointments == 2
MaxRecords == 2
\* Rows a shell session writes to patients, appointments and medical_records.
MaxShellWrites == 2

-----------------------------------------------------------------------------
(* Python values.                                                          *)

None == <<>>
Some(x) == <<x>>

\* Python truthiness of an Optional[int]: None and 0 are false.
Truthy(opt) == opt # None /\ opt[1] # 0

\* ord(c) for the characters the model uses.
Ord(c) ==
    CASE c = "NUL" -> 0
      [] c = " " -> 32
      [] c = "%" -> 37
      [] c = "-" -> 45
      [] c = "0" -> 48 [] c = "1" -> 49 [] c = "2" -> 50 [] c = "3" -> 51
      [] c = "4" -> 52 [] c = "5" -> 53 [] c = "6" -> 54 [] c = "7" -> 55
      [] c = "8" -> 56 [] c = "9" -> 57
      [] c = ":" -> 58
      [] c = "D" -> 68 [] c = "E" -> 69 [] c = "J" -> 74 [] c = "L" -> 76
      [] c = "O" -> 79
      [] c = "_" -> 95
      [] c = "a" -> 97 [] c = "b" -> 98 [] c = "c" -> 99 [] c = "d" -> 100
      [] c = "e" -> 101 [] c = "i" -> 105 [] c = "j" -> 106 [] c = "l" -> 108
      [] c = "m" -> 109 [] c = "n" -> 110 [] c = "o" -> 111 [] c = "p" -> 112
      [] c = "q" -> 113 [] c = "r" -> 114 [] c = "t" -> 116 [] c = "u" -> 117
      [] c = "v" -> 118 [] c = "x" -> 120

IsDigit(c) == Ord(c) >= 48 /\ Ord(c) <= 57
DigitVal(c) == Ord(c) - 48
DigitChar(n) == <<"0", "1", "2", "3", "4", "5", "6", "7", "8", "9">>[n + 1]

\* The decimal value of a sequence of digits.
RECURSIVE DigitsVal(_)
DigitsVal(s) ==
    IF s = <<>> THEN 0
    ELSE 10 * DigitsVal(SubSeq(s, 1, Len(s) - 1)) + DigitVal(s[Len(s)])

AllDigits(s) == s # <<>> /\ \A i \in 1..Len(s) : IsDigit(s[i])

\* str.strip() for the blank.
RECURSIVE Strip(_)
Strip(s) ==
    IF s = <<>> THEN s
    ELSE IF s[1] = " " THEN Strip(Tail(s))
    ELSE IF s[Len(s)] = " " THEN Strip(SubSeq(s, 1, Len(s) - 1))
    ELSE s

\* " ".join(args)
RECURSIVE Join(_)
Join(args) ==
    IF args = <<>> THEN <<>>
    ELSE IF Len(args) = 1 THEN args[1]
    ELSE args[1] \o <<" ">> \o Join(Tail(args))

\* int(s): <<n>>, or None for ValueError.  An optional sign and decimal
\* digits, surrounding blanks ignored.
ParseInt(s) ==
    LET t == Strip(s) IN
    IF AllDigits(t) THEN Some(DigitsVal(t))
    ELSE IF t # <<>> /\ t[1] = "-" /\ AllDigits(Tail(t)) THEN Some(0 - DigitsVal(Tail(t)))
    ELSE None

-----------------------------------------------------------------------------
(* SQLite values, column affinity and comparison.                          *)

\* A stored value of storage class INTEGER or TEXT.
SqlInt(n) == [type |-> "integer", int |-> n, text |-> <<>>]
SqlText(s) == [type |-> "text", int |-> 0, text |-> s]

\* What a column declared DATE or DATETIME (NUMERIC affinity) stores for a
\* bound str: a well-formed integer literal becomes an INTEGER, any other
\* text stays TEXT.  (The characters of the model spell no REAL literal.)
NumericAffinity(s) ==
    LET t == Strip(s) IN
    IF AllDigits(t) THEN SqlInt(DigitsVal(t))
    ELSE IF t # <<>> /\ t[1] = "-" /\ AllDigits(Tail(t)) THEN SqlInt(0 - DigitsVal(Tail(t)))
    ELSE SqlText(s)

\* memcmp order of two texts (collation BINARY).
RECURSIVE TextLess(_, _)
TextLess(a, b) ==
    IF b = <<>> THEN FALSE
    ELSE IF a = <<>> THEN TRUE
    ELSE IF Ord(a[1]) # Ord(b[1]) THEN Ord(a[1]) < Ord(b[1])
    ELSE TextLess(Tail(a), Tail(b))

\* SQLite's order of stored values: every INTEGER before every TEXT.
SqlLess(a, b) ==
    IF a.type = "integer" /\ b.type = "integer" THEN a.int < b.int
    ELSE IF a.type = "integer" THEN TRUE
    ELSE IF b.type = "integer" THEN FALSE
    ELSE TextLess(a.text, b.text)

SqlGreaterEq(a, b) == ~SqlLess(a, b)

\* ORDER BY visit_date without DESC.
OrderDesc_Ascending(a, b) == ~SqlLess(b, a)

\* ORDER BY col ASC / DESC: the key order two adjacent result rows satisfy.
OrderAsc(a, b) == ~SqlLess(b, a)
OrderDesc(a, b) == ~SqlLess(a, b)

\* The results an ORDER BY may produce from the selected rows, keys[i] being
\* the key of rows[i]: SQLite leaves the order of rows with equal keys
\* unspecified.
AscendingResults(rows, keys) ==
    { [i \in 1..Len(rows) |-> rows[p[i]]] : p \in
        { q \in Permutations(1..Len(rows)) :
            \A i \in 1..(Len(rows) - 1) : OrderAsc(keys[q[i]], keys[q[i + 1]]) } }

DescendingResults(rows, keys) ==
    { [i \in 1..Len(rows) |-> rows[p[i]]] : p \in
        { q \in Permutations(1..Len(rows)) :
            \A i \in 1..(Len(rows) - 1) : OrderDesc(keys[q[i]], keys[q[i + 1]]) } }

\* The rows of a table at the rowids idx, in rowid order: what a SELECT
\* without ORDER BY fetches.
RECURSIVE RowsAt(_, _)
RowsAt(table, idx) ==
    IF idx = {} THEN <<>>
    ELSE LET m == CHOOSE i \in idx : \A j \in idx : i <= j
         IN  <<table[m]>> \o RowsAt(table, idx \ {m})

\* x LIKE pattern: % matches any run of characters, _ any one character,
\* letters compare without regard to (ASCII) case.
FoldCase(c) == IF Ord(c) >= 65 /\ Ord(c) <= 90 THEN Ord(c) + 32 ELSE Ord(c)

RECURSIVE Like(_, _)
Like(s, pattern) ==
    IF pattern = <<>> THEN s = <<>>
    ELSE IF pattern[1] = "%"
        THEN Like(s, Tail(pattern)) \/ (s # <<>> /\ Like(Tail(s), pattern))
    ELSE /\ s # <<>>
         /\ (pattern[1] = "_" \/ FoldCase(pattern[1]) = FoldCase(s[1]))
         /\ Like(Tail(s), Tail(pattern))

-----------------------------------------------------------------------------
(* The clock.                                                              *)

\* datetime.now().strftime('%Y-%m-%d %H:%M:%S')
Pad2(n) == <<DigitChar(n \div 10), DigitChar(n % 10)>>
Pad4(n) == Pad2(n \div 100) \o Pad2(n % 100)
Strftime(t) ==
    Pad4(t.year) \o <<"-">> \o Pad2(t.month) \o <<"-">> \o Pad2(t.day) \o <<" ">>
        \o Pad2(t.hour) \o <<":">> \o Pad2(t.minute) \o <<":">> \o Pad2(t.second)

\* The instants datetime.now() returns in the model.
Instant(y, mo, d, h, mi, s) ==
    [year |-> y, month |-> mo, day |-> d, hour |-> h, minute |-> mi, second |-> s]
NowValues == { Instant(2026, 11, 4, 10, 0, 0), Instant(2026, 12, 8, 0, 0, 0) }

-----------------------------------------------------------------------------
(* Credentials: EMRSystem._hash_password.                                  *)

\* password.encode('utf-8'), for ASCII.
Utf8(s) == [i \in 1..Len(s) |-> Ord(s[i])]

\* bytes.hex() and bytes.fromhex().
HexDigit(n) ==
    <<"0", "1", "2", "3", "4", "5", "6", "7", "8", "9", "a", "b", "c", "d", "e", "f">>[n + 1]
HexValue(c) == CHOOSE n \in 0..15 : HexDigit(n) = c

RECURSIVE Hex(_)
Hex(bytes) ==
    IF bytes = <<>> THEN <<>>
    ELSE <<HexDigit(bytes[1] \div 16), HexDigit(bytes[1] % 16)>> \o Hex(Tail(bytes))

RECURSIVE FromHex(_)
FromHex(h) ==
    IF h = <<>> THEN <<>>
    ELSE <<16 * HexValue(h[1]) + HexValue(h[2])>> \o FromHex(SubSeq(h, 3, Len(h)))

\* The key HMAC-SHA256 derives from the password bytes: a key shorter than
\* the 64-byte block is padded with zero bytes, so two keys that differ only
\* in trailing zero bytes are the same key.  The padded key is written here
\* without its trailing zeros.  (Passwords of the model are shorter than the
\* block, so the pre-hashing of longer keys does not occur.)
RECURSIVE HmacKey(_)
HmacKey(bytes) ==
    IF bytes # <<>> /\ bytes[Len(bytes)] = 0
    THEN HmacKey(SubSeq(bytes, 1, Len(bytes) - 1))
    ELSE bytes

\* hashlib.pbkdf2_hmac('sha256', password, salt, 100000).hex(): a function of
\* the HMAC key and the salt, taken to be free of any other collision.
Pbkdf2HmacHex(password_bytes, salt) == [key |-> HmacKey(password_bytes), salt |-> salt]

\* _hash_password(password, salt) for a given salt: (hash hex, salt hex).
hash_password(password, salt) == <<Pbkdf2HmacHex(Utf8(password), salt), Hex(salt)>>

\* The values os.urandom(32) takes in the model.
UrandomOutputs == { <<167>>, <<0, 15>> }

-----------------------------------------------------------------------------
(* The store: EMRSystem.                                                   *)

\* call and ret name the operation first, so that any two of their values
\* can be compared.
Call(op, args) == <<op, args>>
Ret(op, value) == <<op, value>>
NoCall == Call("none", <<>>)
NoRet == Ret("none", None)
CallOp == call[1]
CallArgs == call[2]
Returned == ret[2]

\* SELECT ... FROM users WHERE username = ?
UsersNamed(username) ==
    RowsAt(users, { i \in 1..Len(users) : users[i].username = username })

\* The users table declared without UNIQUE on username.
UsernameTaken_Unconstrained(username) == FALSE

\* The UNIQUE constraint on users.username refuses the INSERT.
UsernameTaken(username) == UsersNamed(username) # <<>>

UserRow(id, username, password, salt, role, name) ==
    LET h == hash_password(password, salt)
    IN  [id |-> id, username |-> username, password_hash |-> h[1],
         salt |-> h[2], role |-> role, name |-> name]

add_user(username, password, role, name) ==
    /\ running
    /\ UsernameTaken(username) \/ Len(users) < MaxUsers
    /\ \E salt \in UrandomOutputs :
          IF UsernameTaken(username)
          THEN /\ ret' = Ret("add_user", FALSE)
               /\ UNCHANGED <<users, passwords>>
          ELSE /\ users' = Append(users, UserRow(Len(users) + 1, username, password, salt, role, name))
               /\ passwords' = Append(passwords, password)
               /\ ret' = Ret("add_user", TRUE)
    /\ call' = Call("add_user", <<username, password, role, name>>)
    /\ UNCHANGED <<patients, appointments, medical_records, given_patients, running>>

\* The password check of authenticate_user against the fetched row.
PasswordMatches(row, password) ==
    hash_password(password, FromHex(row.salt))[1] = row.password_hash

\* What authenticate_user returns: (user_id, role) or None.
Authenticate(username, password) ==
    LET result == UsersNamed(username)
    IN  IF result # <<>> /\ PasswordMatches(result[1], password)
        THEN <<result[1].id, result[1].role>>
        ELSE None

authenticate_user(username, password) ==
    /\ running
    /\ ret' = Ret("authenticate_user", Authenticate(username, password))
    /\ call' = Call("authenticate_user", <<username, password>>)
    /\ UNCHANGED <<tables, passwords, given_patients, running>>

\* The row INSERT INTO patients stores: dob is declared DATE.
PatientRow(patient) ==
    [id |-> Len(patients) + 1, first_name |-> patient.first_name,
     last_name |-> patient.last_name, dob |-> NumericAffinity(patient.dob),
     gender |-> patient.gender, contact_number |-> patient.contact_number,
     email |-> patient.email, address |-> patient.address,
     insurance_info |-> patient.insurance_info]

add_patient(patient) ==
    /\ running
    /\ Len(patients) < MaxPatients
    /\ patients' = Append(patients, PatientRow(patient))
    /\ given_patients' = Append(given_patients, patient)
    /\ ret' = Ret("add_patient", Len(patients) + 1)
    /\ call' = Call("add_patient", <<patient>>)
    /\ UNCHANGED <<users, appointments, medical_records, passwords, running>>

\* What get_patient returns: Some(Patient) or None.
GetPatient(patient_id) ==
    LET result == RowsAt(patients, { i \in 1..Len(patients) : patients[i].id = patient_id })
    IN  IF result # <<>> THEN Some(result[1]) ELSE None

get_patient(patient_id) ==
    /\ running
    /\ ret' = Ret("get_patient", GetPatient(patient_id))
    /\ call' = Call("get_patient", <<patient_id>>)
    /\ UNCHANGED <<tables, passwords, given_patients, running>>

\* search_pattern = f"%{search_term}%"
SearchPattern(search_term) == <<"%">> \o search_term \o <<"%">>

\* What search_patients returns.
SearchPatients(search_term) ==
    RowsAt(patients,
           { i \in 1..Len(patients) :
                \/ Like(patients[i].first_name, SearchPattern(search_term))
                \/ Like(patients[i].last_name, SearchPattern(search_term)) })

search_patients(search_term) ==
    /\ running
    /\ ret' = Ret("search_patients", SearchPatients(search_term))
    /\ call' = Call("search_patients", <<search_term>>)
    /\ UNCHANGED <<tables, passwords, given_patients, running>>

\* The row INSERT INTO appointments stores: appointment_date is declared DATETIME.
AppointmentRow(appointment) ==
    [id |-> Len(appointments) + 1, patient_id |-> appointment.patient_id,
     doctor_id |-> appointment.doctor_id,
     appointment_date |-> NumericAffinity(appointment.appointment_date),
     reason |-> appointment.reason, status |-> appointment.status]

schedule_appointment(appointment) ==
    /\ running
    /\ Len(appointments) < MaxAppointments
    /\ appointments' = Append(appointments, AppointmentRow(appointment))
    /\ ret' = Ret("schedule_appointment", Len(appointments) + 1)
    /\ call' = Call("schedule_appointment", <<appointment>>)
    /\ UNCHANGED <<users, patients, medical_records, passwords, given_patients, running>>

\* "if doctor_id:" decides whether "AND doctor_id = ?" joins the query.
DoctorFilter(doctor_id, row) == Truthy(doctor_id) => row.doctor_id = doctor_id[1]

\* The comparison of the WHERE clause with its operands exchanged.
IsUpcoming_Exchanged(row, now) == SqlGreaterEq(SqlText(Strftime(now)), row.appointment_date)

\* WHERE appointment_date >= ? with the clock's text as the parameter.
IsUpcoming(row, now) == SqlGreaterEq(row.appointment_date, SqlText(Strftime(now)))

\* The results get_upcoming_appointments may return when the clock reads now.
UpcomingAppointments(doctor_id, now) ==
    LET rows == RowsAt(appointments,
                       { i \in 1..Len(appointments) :
                            /\ IsUpcoming(appointments[i], now)
                            /\ DoctorFilter(doctor_id, appointments[i]) })
    IN  AscendingResults(rows, [i \in 1..Len(rows) |-> rows[i].appointment_date])

get_upcoming_appointments(doctor_id, now) ==
    /\ running
    /\ \E rows \in UpcomingAppointments(doctor_id, now) : ret' = Ret("get_upcoming_appointments", rows)
    /\ call' = Call("get_upcoming_appointments", <<doctor_id, now>>)
    /\ UNCHANGED <<tables, passwords, given_patients, running>>

\* The row INSERT INTO medical_records stores: visit_date is declared DATETIME.
MedicalRecordRow(record) ==
    [id |-> Len(medical_records) + 1, patient_id |-> record.patient_id,
     visit_date |-> NumericAffinity(record.visit_date), diagnosis |-> record.diagnosis,
     prescription |-> record.prescription, notes |-> record.notes,
     doctor_id |-> record.doctor_id]

add_medical_record(record) ==
    /\ running
    /\ Len(medical_records) < MaxRecords
    /\ medical_records' = Append(medical_records, MedicalRecordRow(record))
    /\ ret' = Ret("add_medical_record", Len(medical_records) + 1)
    /\ call' = Call("add_medical_record", <<record>>)
    /\ UNCHANGED <<users, patients, appointments, passwords, given_patients, running>>

\* WHERE patient_id = ?
OfPatient(row, patient_id) == row.patient_id = patient_id

\* The results get_patient_medical_history may return.
MedicalHistory(patient_id) ==
    LET rows == RowsAt(medical_records,
                       { i \in 1..Len(medical_records) :
                            OfPatient(medical_records[i], patient_id) })
    IN  DescendingResults(rows, [i \in 1..Len(rows) |-> rows[i].visit_date])

get_patient_medical_history(patient_id) ==
    /\ running
    /\ \E rows \in MedicalHistory(patient_id) : ret' = Ret("get_patient_medical_history", rows)
    /\ call' = Call("get_patient_medical_history", <<patient_id>>)
    /\ UNCHANGED <<tables, passwords, given_patients, running>>

close ==
    /\ running
    /\ running' = FALSE
    /\ call' = Call("close", <<>>)
    /\ ret' = Ret("close", None)
    /\ UNCHANGED <<tables, passwords, given_patients>>

-----------------------------------------------------------------------------
(* Inputs of the store's callers.                                          *)

Usernames == { <<"a", "l">>, <<"b", "o">> }
UnknownUsername == <<"e", "v">>
CreatePasswords == { <<"p">>, <<"q">> }
LoginPasswords == { <<"p">>, <<"q">>, <<"p", "NUL">> }
Admin == <<"a", "d", "m", "i", "n">>
Doctor == <<"d", "o", "c", "t", "o", "r">>
Roles == { Admin, Doctor }
StaffName == <<"D", "r">>

FirstNames == { <<"J", "o">>, <<"D", "e", "e">> }
LastNames == { <<"D", "o", "e">>, <<"L", "i">> }
BirthDates == { <<"1", "9", "9", "0", "-", "0", "5", "-", "1", "5">>, <<"1", "9", "9", "0">> }
SearchTerms == { <<"d", "o">>, <<"D", "O", "E">>, <<"o">>, <<"x">>, <<"_">>, <<"%">> }

Patient(first_name, last_name, dob) ==
    [id |-> None, first_name |-> first_name, last_name |-> last_name, dob |-> dob,
     gender |-> <<"F">>, contact_number |-> <<"5", "5", "5">>, email |-> <<"j", "@", "d">>,
     address |-> <<"1", " ", "M", "a", "i", "n">>, insurance_info |-> <<>>]
PatientInputs == { Patient(f, l, d) : f \in FirstNames, l \in LastNames, d \in BirthDates }
PatientIds == 0..(MaxPatients + 1)

\* Dates and times of day as a caller writes them.
Dates ==
    { <<"2", "0", "2", "6", "-", "1", "2", "-", "0", "5">>,
      <<"2", "0", "2", "6", "-", "1", "2", "-", "5">>,
      <<"2", "0", "2", "6", "-", "1", "2", "-", "1", "0">> }
TimesOfDay == { <<"0", "9", ":", "0", "0", ":", "0", "0">> }

\* date_str = f"{args[2]} {args[3]}"
DateStr(date, time) == date \o <<" ">> \o time

DateTimes == { DateStr(d, t) : d \in Dates, t \in TimesOfDay }
DoctorIds == 1..2
DoctorIdArguments == {None} \cup { Some(i) : i \in 0..2 }
Scheduled == <<"s", "c", "h", "e", "d", "u", "l", "e", "d">>
Checkup == <<"c", "h", "e", "c", "k", "u", "p">>

Appointment(patient_id, doctor_id, appointment_date, reason) ==
    [id |-> None, patient_id |-> patient_id, doctor_id |-> doctor_id,
     appointment_date |-> appointment_date, reason |-> reason, status |-> Scheduled]
AppointmentInputs == { Appointment(1, d, w, Checkup) : d \in DoctorIds, w \in DateTimes }

MedicalRecord(patient_id, visit_date, diagnosis, prescription, notes, doctor_id) ==
    [id |-> None, patient_id |-> patient_id, visit_date |-> visit_date,
     diagnosis |-> diagnosis, prescription |-> prescription, notes |-> notes,
     doctor_id |-> doctor_id]
Healthy == <<"o", "k">>
RecordInputs ==
    { MedicalRecord(p, w, Healthy, <<>>, <<>>, 1) : p \in 1..2, w \in DateTimes }

SampleUser == <<UnknownUsername, <<"p">>, Doctor, StaffName>>
SamplePatient == Patient(<<"J", "o">>, <<"L", "i">>, <<"1", "9", "9", "0">>)
SampleAppointment == Appointment(1, 1, Strftime(Instant(2027, 1, 15, 9, 30, 0)), Checkup)
SampleRecord == MedicalRecord(1, Strftime(Instant(2026, 11, 4, 10, 0, 0)), Healthy, <<>>, <<>>, 1)

-----------------------------------------------------------------------------
(* The store used directly, as by the example of emr_system.py.            *)

Init ==
    /\ users = <<>>
    /\ patients = <<>>
    /\ appointments = <<>>
    /\ medical_records = <<>>
    /\ current_user = None
    /\ current_role = None
    /\ running = TRUE
    /\ command = ""
    /\ call = NoCall
    /\ ret = NoRet
    /\ passwords = <<>>
    /\ given_patients = <<>>

AddUser == \E u \in Usernames, p \in CreatePasswords, r \in Roles :
    add_user(u, p, r, StaffName) /\ UNCHANGED direct

AuthenticateUser == \E u \in Usernames \cup {UnknownUsername}, p \in LoginPasswords :
    authenticate_user(u, p) /\ UNCHANGED direct

AddPatient == \E p \in PatientInputs : add_patient(p) /\ UNCHANGED direct

GetPatientById == \E i \in PatientIds : get_patient(i) /\ UNCHANGED direct

SearchPatientsByName == \E s \in SearchTerms : search_patients(s) /\ UNCHANGED direct

ScheduleAppointment == \E a \in AppointmentInputs :
    schedule_appointment(a) /\ UNCHANGED direct

GetUpcomingAppointments == \E d \in DoctorIdArguments, now \in NowValues :
    get_upcoming_appointments(d, now) /\ UNCHANGED direct

AddMedicalRecord == \E r \in RecordInputs : add_medical_record(r) /\ UNCHANGED direct

GetPatientMedicalHistory == \E i \in 0..3 :
    get_patient_medical_history(i) /\ UNCHANGED direct

\* A first insert into another table: the tables a row refers to, or that
\* refer to it.
AddOtherUser ==
    /\ users = <<>>
    /\ add_user(SampleUser[1], SampleUser[2], SampleUser[3], SampleUser[4])
    /\ UNCHANGED direct
AddOtherPatient ==
    patients = <<>> /\ add_patient(SamplePatient) /\ UNCHANGED direct
AddOtherAppointment ==
    appointments = <<>> /\ schedule_appointment(SampleAppointment) /\ UNCHANGED direct
AddOtherRecord ==
    medical_records = <<>> /\ add_medical_record(SampleRecord) /\ UNCHANGED direct

NextAccounts ==
    AddUser \/ AuthenticateUser \/ AddOtherPatient \/ AddOtherAppointment \/ AddOtherRecord
SpecAccounts == Init /\ [][NextAccounts]_vars

NextPatients ==
    \/ AddPatient \/ GetPatientById \/ SearchPatientsByName
    \/ AddOtherAppointment \/ AddOtherRecord
SpecPatients == Init /\ [][NextPatients]_vars

NextAppointments ==
    \/ ScheduleAppointment \/ GetUpcomingAppointments
    \/ AddOtherUser \/ AddOtherPatient
SpecAppointments == Init /\ [][NextAppointments]_vars

NextRecords ==
    \/ AddMedicalRecord \/ GetPatientMedicalHistory
    \/ AddOtherUser \/ AddOtherPatient
SpecRecords == Init /\ [][NextRecords]_vars

-----------------------------------------------------------------------------
(* Accounts.                                                               *)

UniqueUsernames(table) ==
    \A i, j \in 1..Len(table) : table[i].username = table[j].username => i = j

\* C1: the users table holds at most one row per username; an add_user call
\* for a username not yet in the table returns true and appends exactly one
\* row for it, and an add_user call for a username already in the table
\* returns false and leaves the table as it was, whatever its other arguments.
C1_UsernameUnique ==
    [][ /\ UniqueUsernames(users')
        /\ CallOp' = "add_user" =>
              IF \E i \in 1..Len(users) : users[i].username = CallArgs'[1]
              THEN Returned' = FALSE /\ users' = users
              ELSE /\ Returned' = TRUE
                   /\ Len(users') = Len(users) + 1
                   /\ SubSeq(users', 1, Len(users)) = users
                   /\ users'[Len(users')].username = CallArgs'[1] ]_vars

\* A second add_user for a stored username, with another password and role,
\* has been refused.
C1_Witness ==
    /\ CallOp = "add_user"
    /\ Returned = FALSE
    /\ \E i \in 1..Len(users) :
          /\ users[i].username = CallArgs[1]
          /\ passwords[i] # CallArgs[2]
          /\ users[i].role # CallArgs[3]

\* C2: authenticate_user(u, q) returns the (id, role) of the account created
\* as add_user(u, q, ...), and returns None when no account was created with
\* username u and password q (unknown username or wrong password alike).
C2_Authentication ==
    CallOp = "authenticate_user" =>
        LET created == { i \in 1..Len(users) :
                            users[i].username = CallArgs[1] /\ passwords[i] = CallArgs[2] }
        IN  IF created # {}
            THEN \E i \in created : Returned = <<users[i].id, users[i].role>>
            ELSE Returned = None

-----------------------------------------------------------------------------
(* Patients.                                                               *)

\* The Patient a caller expects back: the one passed in, with its id set.
AsInserted(patient, id) == [patient EXCEPT !.id = id, !.dob = SqlText(patient.dob)]

\* C3: get_patient(i) of an id i that add_patient returned yields the Patient
\* passed to that call, field by field, with id i, whatever was inserted
\* afterwards; get_patient of an id never returned yields None.
C3_PatientRoundTrip ==
    CallOp = "get_patient" =>
        IF CallArgs[1] \in 1..Len(given_patients)
        THEN Returned = Some(AsInserted(given_patients[CallArgs[1]], CallArgs[1]))
        ELSE Returned = None

\* term occurs in s as a substring, letters compared without regard to case.
ContainsIgnoringCase(s, term) ==
    \E k \in 0..(Len(s) - Len(term)) :
        \A j \in 1..Len(term) : FoldCase(s[k + j]) = FoldCase(term[j])

\* C7: search_patients(term) returns the stored patients whose first_name or
\* last_name contains term as a case-insensitive substring, each once, and
\* no other patient.
C7_SubstringSearch ==
    CallOp = "search_patients" =>
        LET matching == { i \in 1..Len(patients) :
                            \/ ContainsIgnoringCase(patients[i].first_name, CallArgs[1])
                            \/ ContainsIgnoringCase(patients[i].last_name, CallArgs[1]) }
        IN  /\ { Returned[i].id : i \in 1..Len(Returned) } = matching
            /\ Len(Returned) = Cardinality(matching)
            /\ \A i \in 1..Len(Returned) : Returned[i] = patients[Returned[i].id]

-----------------------------------------------------------------------------
(* Appointments and medical records.                                       *)

\* The numbers a date and time are written with, in order: the maximal runs
\* of digits of the text.
RECURSIVE NumbersOf(_, _)
NumbersOf(s, run) ==
    IF s = <<>> THEN (IF run = <<>> THEN <<>> ELSE <<DigitsVal(run)>>)
    ELSE IF IsDigit(s[1]) THEN NumbersOf(Tail(s), Append(run, s[1]))
    ELSE (IF run = <<>> THEN <<>> ELSE <<DigitsVal(run)>>) \o NumbersOf(Tail(s), <<>>)

\* The instant a text denotes: year, month, day, hour, minute, second, a
\* missing part being 0.
InstantOf(text) ==
    LET n == NumbersOf(text, <<>>)
    IN  [i \in 1..6 |-> IF i <= Len(n) THEN n[i] ELSE 0]

InstantOfClock(t) == <<t.year, t.month, t.day, t.hour, t.minute, t.second>>

\* a is before b in time.
Before(a, b) ==
    \E k \in 1..6 : a[k] < b[k] /\ \A j \in 1..(k - 1) : a[j] = b[j]

\* The zero-padded fixed-width form YYYY-MM-DD HH:MM:SS.
IsFixedWidth(text) ==
    /\ Len(text) = 19
    /\ \A i \in 1..19 :
          IF i \in {5, 8} THEN text[i] = "-"
          ELSE IF i = 11 THEN text[i] = " "
          ELSE IF i \in {14, 17} THEN text[i] = ":"
          ELSE IsDigit(text[i])

WellFormed(value) == value.type = "text" /\ IsFixedWidth(value.text)

\* C4: get_upcoming_appointments(d) with a doctor_id d supplied, 0 included,
\* returns only appointments of doctor d.
C4_DoctorFilter ==
    (CallOp = "get_upcoming_appointments" /\ CallArgs[1] # None) =>
        \A i \in 1..Len(Returned) : Returned[i].doctor_id = CallArgs[1][1]

\* C5 as stated: get_upcoming_appointments() returns exactly the stored
\* appointments that are at or after the clock's reading in time, earliest
\* first, for every appointment the store accepts.
C5_UpcomingChronological ==
    (CallOp = "get_upcoming_appointments" /\ CallArgs[1] = None) =>
        LET now == InstantOfClock(CallArgs[2])
            upcoming == { i \in 1..Len(appointments) :
                            ~Before(InstantOf(appointments[i].appointment_date.text), now) }
        IN  /\ { Returned[i].id : i \in 1..Len(Returned) } = upcoming
            /\ Len(Returned) = Cardinality(upcoming)
            /\ \A i \in 1..Len(Returned) : Returned[i] = appointments[Returned[i].id]
            /\ \A i, j \in 1..Len(Returned) :
                  i < j => ~Before(InstantOf(Returned[j].appointment_date.text),
                                   InstantOf(Returned[i].appointment_date.text))

\* C5 amended: get_upcoming_appointments() returns stored appointments only,
\* each at most once; an appointment whose appointment_datetime has the form
\* YYYY-MM-DD HH:MM:SS is returned exactly if it is at or after the clock's
\* reading, and the returned appointments of that form are earliest first.
C5_UpcomingWellFormed ==
    (CallOp = "get_upcoming_appointments" /\ CallArgs[1] = None) =>
        LET now == InstantOfClock(CallArgs[2])
            returned == { Returned[i].id : i \in 1..Len(Returned) }
        IN  /\ Len(Returned) = Cardinality(returned)
            /\ \A i \in 1..Len(Returned) :
                  Returned[i].id \in 1..Len(appointments) /\ Returned[i] = appointments[Returned[i].id]
            /\ \A i \in 1..Len(appointments) :
                  WellFormed(appointments[i].appointment_date) =>
                      (i \in returned <=>
                          ~Before(InstantOf(appointments[i].appointment_date.text), now))
            /\ \A i, j \in 1..Len(Returned) :
                  (/\ i < j
                   /\ WellFormed(Returned[i].appointment_date)
                   /\ WellFormed(Returned[j].appointment_date)) =>
                      ~Before(InstantOf(Returned[j].appointment_date.text),
                              InstantOf(Returned[i].appointment_date.text))

\* A listing for all doctors, when the clock reads 2026-12-08, of a store
\* that holds a well-formed appointment in the past, which is left out, and
\* a well-formed one to come, which is returned.
C5_Witness ==
    /\ CallOp = "get_upcoming_appointments"
    /\ CallArgs[1] = None
    /\ Len(Returned) = 1
    /\ WellFormed(Returned[1].appointment_date)
    /\ \E i \in 1..Len(appointments) :
          /\ WellFormed(appointments[i].appointment_date)
          /\ Before(InstantOf(appointments[i].appointment_date.text),
                    InstantOfClock(CallArgs[2]))

\* C6 as stated: get_patient_medical_history(p) returns exactly the records
\* added with patient_id p, most recent first in time.
C6_HistoryChronological ==
    CallOp = "get_patient_medical_history" =>
        LET mine == { i \in 1..Len(medical_records) :
                        medical_records[i].patient_id = CallArgs[1] }
        IN  /\ { Returned[i].id : i \in 1..Len(Returned) } = mine
            /\ Len(Returned) = Cardinality(mine)
            /\ \A i \in 1..Len(Returned) : Returned[i] = medical_records[Returned[i].id]
            /\ \A i, j \in 1..Len(Returned) :
                  i < j => ~Before(InstantOf(Returned[i].visit_date.text),
                                   InstantOf(Returned[j].visit_date.text))

\* C6 amended: get_patient_medical_history(p) returns exactly the records
\* added with patient_id p, each once (none for a patient id without
\* records), and the returned records whose visit_datetime has the form
\* YYYY-MM-DD HH:MM:SS are most recent first.
C6_HistoryWellFormed ==
    CallOp = "get_patient_medical_history" =>
        LET mine == { i \in 1..Len(medical_records) :
                        medical_records[i].patient_id = CallArgs[1] }
        IN  /\ { Returned[i].id : i \in 1..Len(Returned) } = mine
            /\ Len(Returned) = Cardinality(mine)
            /\ \A i \in 1..Len(Returned) : Returned[i] = medical_records[Returned[i].id]
            /\ \A i, j \in 1..Len(Returned) :
                  (/\ i < j
                   /\ WellFormed(Returned[i].visit_date)
                   /\ WellFormed(Returned[j].visit_date)) =>
                      ~Before(InstantOf(Returned[i].visit_date.text),
                              InstantOf(Returned[j].visit_date.text))

\* A history of two well-formed records of one patient, returned in the
\* reverse of the order they were added in: the later visit first.
C6_Witness ==
    /\ CallOp = "get_patient_medical_history"
    /\ Len(Returned) = 2
    /\ WellFormed(Returned[1].visit_date)
    /\ WellFormed(Returned[2].visit_date)
    /\ Returned[1].id > Returned[2].id
    /\ Before(InstantOf(Returned[2].visit_date.text), InstantOf(Returned[1].visit_date.text))

-----------------------------------------------------------------------------
(* The command shell: EMRCLI.  A step is one command line; arg is the text *)
(* after the command word.                                                 *)

\* arg.split()
RECURSIVE SplitFrom(_, _)
SplitFrom(s, word) ==
    IF s = <<>> THEN (IF word = <<>> THEN <<>> ELSE <<word>>)
    ELSE IF s[1] = " "
        THEN (IF word = <<>> THEN <<>> ELSE <<word>>) \o SplitFrom(Tail(s), <<>>)
    ELSE SplitFrom(Tail(s), Append(word, s[1]))

Split(arg) == SplitFrom(arg, <<>>)

\* The session may still write a row.
MayWrite == Len(patients) + Len(appointments) + Len(medical_records) < MaxShellWrites

\* The reading of the clock in a shell session.
ShellClock == Instant(2026, 11, 4, 10, 0, 0)

\* A command that returns before it calls the store.
NoStoreCall ==
    /\ call' = NoCall
    /\ ret' = NoRet
    /\ UNCHANGED <<tables, passwords, given_patients, running>>

\* check_auth: "if not self.current_user".
CheckAuth == Truthy(current_user)

\* The gate without the role test, and with "and" for "or".
MayAddUser_AnyRole == CheckAuth
MayAddUser_Either == CheckAuth \/ current_role = Some(Admin)

\* The gate of do_add_user.
MayAddUser == CheckAuth /\ current_role = Some(Admin)

\* do_login assigning the session from a failed authentication too.
SessionAfterLogin_Overwrites(result) ==
    IF result # None THEN <<Some(result[1]), Some(result[2])>> ELSE <<None, None>>

\* The session do_login leaves for what authenticate_user returned.
SessionAfterLogin(result) ==
    IF result # None
    THEN <<Some(result[1]), Some(result[2])>>
    ELSE <<current_user, current_role>>

do_login(arg) ==
    LET args == Split(arg) IN
    /\ running
    /\ command' = "login"
    /\ IF Len(args) # 2
       THEN NoStoreCall /\ UNCHANGED session
       ELSE /\ authenticate_user(args[1], args[2])
            /\ current_user' = SessionAfterLogin(Authenticate(args[1], args[2]))[1]
            /\ current_role' = SessionAfterLogin(Authenticate(args[1], args[2]))[2]

do_add_user(arg) ==
    LET args == Split(arg) IN
    /\ running
    /\ command' = "add_user"
    /\ UNCHANGED session
    /\ IF ~MayAddUser THEN NoStoreCall
       ELSE IF Len(args) < 4 THEN NoStoreCall
       ELSE add_user(args[1], args[2], args[3], Join(SubSeq(args, 4, Len(args))))

do_add_patient(arg) ==
    LET args == Split(arg) IN
    /\ running
    /\ command' = "add_patient"
    /\ UNCHANGED session
    /\ IF ~CheckAuth THEN NoStoreCall
       ELSE IF Len(args) < 8 THEN NoStoreCall
       ELSE MayWrite /\ add_patient([id |-> None, first_name |-> args[1], last_name |-> args[2],
                         dob |-> args[3], gender |-> args[4], contact_number |-> args[5],
                         email |-> args[6], address |-> args[7], insurance_info |-> args[8]])

do_search_patient(arg) ==
    /\ running
    /\ command' = "search_patient"
    /\ UNCHANGED session
    /\ IF ~CheckAuth THEN NoStoreCall
       ELSE IF arg = <<>> THEN NoStoreCall
       ELSE search_patients(arg)

do_schedule_appointment(arg) ==
    LET args == Split(arg) IN
    /\ running
    /\ command' = "schedule_appointment"
    /\ UNCHANGED session
    /\ IF ~CheckAuth THEN NoStoreCall
       ELSE IF Len(args) < 5 THEN NoStoreCall
       ELSE IF ParseInt(args[1]) = None \/ ParseInt(args[2]) = None THEN NoStoreCall
       ELSE MayWrite /\ schedule_appointment(
                Appointment(ParseInt(args[1])[1], ParseInt(args[2])[1],
                            DateStr(args[3], args[4]), Join(SubSeq(args, 5, Len(args)))))

do_view_appointments(arg, now) ==
    /\ running
    /\ command' = "view_appointments"
    /\ UNCHANGED session
    /\ IF ~CheckAuth THEN NoStoreCall
       ELSE IF arg # <<>> /\ ParseInt(arg) = None THEN NoStoreCall
       ELSE get_upcoming_appointments(IF arg # <<>> THEN ParseInt(arg) ELSE None, now)

do_add_record(arg, now) ==
    LET args == Split(arg) IN
    /\ running
    /\ command' = "add_record"
    /\ UNCHANGED session
    /\ IF ~CheckAuth THEN NoStoreCall
       ELSE IF Len(args) < 4 THEN NoStoreCall
       ELSE IF ParseInt(args[1]) = None THEN NoStoreCall
       ELSE MayWrite /\ add_medical_record(
                MedicalRecord(ParseInt(args[1])[1], Strftime(now), args[2], args[3],
                              Join(SubSeq(args, 4, Len(args))), current_user[1]))

do_view_history(arg) ==
    /\ running
    /\ command' = "view_history"
    /\ UNCHANGED session
    /\ IF ~CheckAuth THEN NoStoreCall
       ELSE IF arg = <<>> THEN NoStoreCall
       ELSE IF ParseInt(arg) = None THEN NoStoreCall
       ELSE get_patient_medical_history(ParseInt(arg)[1])

do_quit ==
    /\ command' = "quit"
    /\ UNCHANGED session
    /\ close

\* The command lines of the model.
LoginLines ==
    { <<"a", "l", " ", "p">>,
      <<"a", "l", " ", "q">>,
      <<"b", "o", " ", "q">>,
      <<"e", "v", " ", "p">>,
      <<"a", "l">> }
AddUserLines ==
    { <<"e", "v", " ", "p", " ", "d", "o", "c", "t", "o", "r", " ", "D", "r", " ", "L", "i">>,
      <<"b", "o", " ", "p", " ", "a", "d", "m", "i", "n", " ", "D", "r">>,
      <<"e", "v", " ", "p">> }
AddPatientLines ==
    { <<"J", "o", " ", "L", "i", " ", "1", "9", "9", "0", " ", "F", " ", "5", "5", "5", " ", "j", "@", "d", " ", "M", "a", "i", "n", " ", "x">>,
      <<"J", "o", " ", "L", "i">> }
SearchPatientLines ==
    { <<"o">>,
      <<>> }
ScheduleAppointmentLines ==
    { <<"1", " ", "2", " ", "2", "0", "2", "6", "-", "1", "2", "-", "5", " ", "0", "9", ":", "0", "0", " ", "c", "h", "e", "c", "k", "u", "p">>,
      <<"x", " ", "2", " ", "2", "0", "2", "6", "-", "1", "2", "-", "0", "5", " ", "0", "9", ":", "0", "0", ":", "0", "0", " ", "c", "h", "e", "c", "k", "u", "p">> }
ViewAppointmentsLines ==
    { <<>>,
      <<"0">>,
      <<"x">> }
AddRecordLines ==
    { <<"1", " ", "o", "k", " ", "n", "o", "n", "e", " ", "a", "l", "l", " ", "f", "i", "n", "e">>,
      <<"1", " ", "o", "k">> }
ViewHistoryLines ==
    { <<"1">>,
      <<"x">> }

\* The stores a session may start on: emr.db as earlier sessions left it.
\* Each account is (username, password, salt, role, name), created by
\* add_user in this order.
InstalledAccounts ==
    { <<>>,
      << <<<<"a", "l">>, <<"p">>, <<167>>, Admin, StaffName>> >>,
      << <<<<"b", "o">>, <<"q">>, <<0, 15>>, Doctor, StaffName>> >>,
      << <<<<"b", "o">>, <<"q">>, <<0, 15>>, Doctor, StaffName>>,
         <<<<"a", "l">>, <<"p">>, <<167>>, Admin, StaffName>> >> }

UsersCreatedBy(accounts) ==
    [i \in 1..Len(accounts) |->
        UserRow(i, accounts[i][1], accounts[i][2], accounts[i][3], accounts[i][4],
                accounts[i][5])]

InitShell ==
    /\ \E accounts \in InstalledAccounts :
          /\ users = UsersCreatedBy(accounts)
          /\ passwords = [i \in 1..Len(accounts) |-> accounts[i][2]]
    /\ patients = <<>>
    /\ appointments = <<>>
    /\ medical_records = <<>>
    /\ current_user = None
    /\ current_role = None
    /\ running = TRUE
    /\ command = ""
    /\ call = NoCall
    /\ ret = NoRet
    /\ given_patients = <<>>

Login == \E arg \in LoginLines : do_login(arg)
AddUserCommand == \E arg \in AddUserLines : do_add_user(arg)
AddPatientCommand == \E arg \in AddPatientLines : do_add_patient(arg)
SearchPatientCommand == \E arg \in SearchPatientLines : do_search_patient(arg)
ScheduleAppointmentCommand ==
    \E arg \in ScheduleAppointmentLines : do_schedule_appointment(arg)
ViewAppointmentsCommand ==
    \E arg \in ViewAppointmentsLines : do_view_appointments(arg, ShellClock)
AddRecordCommand == \E arg \in AddRecordLines : do_add_record(arg, ShellClock)
ViewHistoryCommand == \E arg \in ViewHistoryLines : do_view_history(arg)
Quit == do_quit

NextShell ==
    \/ Login \/ AddUserCommand \/ AddPatientCommand \/ SearchPatientCommand
    \/ ScheduleAppointmentCommand \/ ViewAppointmentsCommand \/ AddRecordCommand
    \/ ViewHistoryCommand \/ Quit
SpecShell == InitShell /\ [][NextShell]_vars

-----------------------------------------------------------------------------
(* The shell's session.                                                    *)

\* The session belongs to a stored account with role admin.
AdminSession ==
    /\ current_user # None
    /\ current_user[1] \in 1..Len(users)
    /\ users[current_user[1]].role = Admin
    /\ current_role = Some(Admin)

\* C8: an add_user command reaches the store's add_user only in a session
\* that a login of an account with role admin established; in any other
\* session, and when nobody is logged in, it issues no store call and leaves
\* the users table as it was.  No other command changes the users table.
C8_AdminGate ==
    [][ /\ (CallOp' = "add_user" \/ users' # users) =>
              (command' = "add_user" /\ AdminSession)
        /\ (command' = "add_user" /\ ~AdminSession) =>
              (call' = NoCall /\ users' = users) ]_vars

\* The account created by an add_user command in an admin's session.
C8_Witness ==
    /\ command = "add_user"
    /\ CallOp = "add_user"
    /\ Returned = TRUE
    /\ AdminSession
    /\ users[Len(users)].username = CallArgs[1]

\* The store calls a command may issue before any login has succeeded.
BeforeLogin == { "none", "authenticate_user", "close" }

\* C9: while no login has succeeded the shell issues no store call but
\* authenticate_user and the close of quit; once a login has succeeded the
\* session stays authenticated; a failed login leaves the session's user id
\* and role as they were, a successful one sets both from the account, and
\* no other command touches them, so the session's role is always the stored
\* role of the session's user id.
C9_Session ==
    [][ /\ current_user = None => CallOp' \in BeforeLogin
        /\ current_user # None => current_user' # None
        /\ IF command' = "login" /\ CallOp' = "authenticate_user"
           THEN IF Returned' = None
                THEN UNCHANGED <<current_user, current_role>>
                ELSE current_user' = Some(Returned'[1]) /\ current_role' = Some(Returned'[2])
           ELSE UNCHANGED <<current_user, current_role>>
        /\ IF current_user' = None
           THEN current_role' = None
           ELSE /\ current_user'[1] \in 1..Len(users')
                /\ current_role' = Some(users'[current_user'[1]].role) ]_vars

\* A failed login in a session that an earlier login authenticated, after a
\* command of that session has written to the store.
C9_Witness ==
    /\ command = "login"
    /\ CallOp = "authenticate_user"
    /\ Returned = None
    /\ current_user # None
    /\ patients # <<>>

NoAdminAccount == \A i \in 1..Len(users) : users[i].role # Admin

\* C10: while the users table holds no account with role admin no command
\* adds a row to it, and while it holds no account at all the session stays
\* unauthenticated and no command writes a patient, an appointment or a
\* medical record.
C10_NoAdminNoAccounts ==
    [][ /\ NoAdminAccount => users' = users
        /\ users = <<>> =>
              /\ current_user = None
              /\ current_user' = None
              /\ UNCHANGED <<patients, appointments, medical_records>> ]_vars

\* An add_user command refused in the session of a doctor, on a store
\* without an admin.
C10_Witness ==
    /\ NoAdminAccount
    /\ users # <<>>
    /\ current_user # None
    /\ command = "add_user"
    /\ call = NoCall

=============================================================================
